---- MODULE Spec2Model ----
(***************************************************************************)
(* Model of src/app.py: the SNMP polling engine (snmp_get, snmp_walk,      *)
(* get_device_metrics), the fleet scan (build_statuses) and the summary    *)
(* (build_status_summary).                                                 *)
(*                                                                         *)
(* Python values are tagged records: None, Str(s), IntVal(n), Float(n, d), *)
(* Inf(neg).  An int that comes out of int() is unbounded: it is kept as   *)
(* sign and decimal digits (BigInt).  A finite float is kept as the exact  *)
(* fraction n/d it was computed from (d > 0, not reduced); rounding to 53  *)
(* bits is modelled where it decides an outcome, at the end of the float   *)
(* range: a true division whose quotient rounds out of range raises        *)
(* OverflowError, a product of the rounded quotient out of range is inf.   *)
(* A dict is Dict(f), f a function on its key set.                         *)
(* A value of an SNMP variable binding is the sequence of characters of    *)
(* its payload, so that int() is a real parse that can fail.               *)
(***************************************************************************)
EXTENDS Integers, Sequences, FiniteSets, TLC

VARIABLES
    entry,            \* which function of app.py was entered
    pc,               \* position inside that function
    config,           \* load_config()['devices'] read by build_statuses
    device,           \* parameter `device` of get_device_metrics
    metrics,          \* local dict `metrics` of get_device_metrics
    trace,            \* the snmp_get / snmp_walk calls issued by the current call
    sys_up_time,      \* local of get_device_metrics
    cpu_load_values,  \* local of get_device_metrics
    used_values,      \* local of get_device_metrics
    size_values,      \* local of get_device_metrics
    if_statuses,      \* local of get_device_metrics
    agents,           \* what each scanned device answered, by position
    statuses,         \* list `statuses` of build_statuses / argument of the summary
    summary,          \* dict returned by build_status_summary
    exc               \* exception that left the entered function, "" if none

vars == <<entry, pc, config, device, metrics, trace, sys_up_time,
          cpu_load_values, used_values, size_values, if_statuses,
          agents, statuses, summary, exc>>

-----------------------------------------------------------------------------
(* Bounds of the model *)

\* longest sequence of responses a walked agent sends
MaxWalk == 2
\* longest device list of a scan, longest status list handed to the summary
MaxDevices == 3

-----------------------------------------------------------------------------
(* Python values *)

None == [t |-> "None"]
Str(s) == [t |-> "str", s |-> s]
IntVal(n) == [t |-> "int", i |-> n]

\* a local that has not been assigned (or is no longer read)
Unset == [t |-> "unset"]

Abs(n) == IF n < 0 THEN -n ELSE n

\* a dict with the items f, a function from its keys (strings) to their values
Dict(f) == [t |-> "dict", items |-> f]

\* v is a dict: it has the method get
IsDict(v) == v.t = "dict"

\* the keys of the dict m, and m[k] for a key k of m
Keys(m) == DOMAIN m.items
Item(m, k) == m.items[k]

\* {}: the empty dict
EmptyDict == Dict(<<>>)

\* m[k] = v
SetKey(m, k, v) == Dict([a \in Keys(m) \cup {k} |-> IF a = k THEN v ELSE m.items[a]])

\* m.get(k, default)
DictGet(m, k, default) == IF k \in Keys(m) THEN Item(m, k) ELSE default

\* the outcome of an evaluation: its value, or the exception it raised
Ok(v) == [ok |-> TRUE, val |-> v, exc |-> ""]
Fail(e) == [ok |-> FALSE, val |-> None, exc |-> e]

-----------------------------------------------------------------------------
(* Python ints of any size: a sign and the decimal digits of the magnitude, *)
(* least significant first, no leading zeros (<<>> is 0)                    *)

\* how far below the top of a and b their most significant difference lies
\* (0 at the top digit), for a and b of one length that differ
TopDiff(a, b) ==
    LET n == Len(a)
    IN  CHOOSE k \in 0..(n - 1) :
            /\ a[n - k] /= b[n - k]
            /\ \A j \in 0..(k - 1) : a[n - j] = b[n - j]

\* m without its leading (most significant) zeros
Trim(m) ==
    IF m = <<>> \/ m[Len(m)] /= 0 THEN m
    ELSE LET zeros == [i \in 1..Len(m) |-> 0]
         IN  IF m = zeros THEN <<>> ELSE SubSeq(m, 1, Len(m) - TopDiff(m, zeros))

BigInt(neg, mag) == [neg |-> neg /\ mag /= <<>>, mag |-> mag]

RECURSIVE NatDigits(_)
NatDigits(n) == IF n = 0 THEN <<>> ELSE <<n % 10>> \o NatDigits(n \div 10)

\* the int n of the model checker as a Python int
BigOf(n) == BigInt(n < 0, NatDigits(Abs(n)))

\* digit i of a, 0 past its end
DigitAt(a, i) == IF i <= Len(a) THEN a[i] ELSE 0

\* -1, 0, 1 as a < b, a = b, a > b
MagCmp(a, b) ==
    IF Len(a) /= Len(b) THEN (IF Len(a) < Len(b) THEN -1 ELSE 1)
    ELSE IF a = b THEN 0
    ELSE LET top == Len(a) - TopDiff(a, b)
         IN  IF a[top] < b[top] THEN -1 ELSE 1

\* The carry of schoolbook arithmetic runs from digit lo to digit hi. A range
\* none of whose digits carries, or all of whose digits pass the carry on, is
\* done in one step; any other range is halved, so that the evaluation stays
\* shallow on long numbers. Each gives the digits lo..hi of the result and
\* the carry out of hi.
RECURSIVE AddRange(_, _, _, _, _)
AddRange(a, b, lo, hi, c) ==
    IF lo = hi
    THEN LET t == DigitAt(a, lo) + DigitAt(b, lo) + c
         IN  [d |-> <<t % 10>>, c |-> t \div 10]
    ELSE IF \A i \in lo..hi : DigitAt(a, i) + DigitAt(b, i) < 9
    THEN [d |-> <<>> \o [i \in 1..(hi - lo + 1) |->
                            DigitAt(a, lo + i - 1) + DigitAt(b, lo + i - 1)
                              + (IF i = 1 THEN c ELSE 0)],
          c |-> 0]
    ELSE IF \A i \in lo..hi : DigitAt(a, i) + DigitAt(b, i) = 9
    THEN [d |-> <<>> \o [i \in 1..(hi - lo + 1) |-> (9 + c) % 10], c |-> c]
    ELSE LET mid == (lo + hi) \div 2
             l == AddRange(a, b, lo, mid, c)
             h == AddRange(a, b, mid + 1, hi, l.c)
         IN  [d |-> l.d \o h.d, c |-> h.c]

RECURSIVE MulDigitRange(_, _, _, _, _)
MulDigitRange(a, k, lo, hi, c) ==
    IF lo = hi
    THEN LET t == a[lo] * k + c
         IN  [d |-> <<t % 10>>, c |-> t \div 10]
    ELSE IF \A i \in lo..hi : a[i] * k + c < 10
    THEN [d |-> <<>> \o [i \in 1..(hi - lo + 1) |->
                            a[lo + i - 1] * k + (IF i = 1 THEN c ELSE 0)],
          c |-> 0]
    ELSE LET mid == (lo + hi) \div 2
             l == MulDigitRange(a, k, lo, mid, c)
             h == MulDigitRange(a, k, mid + 1, hi, l.c)
         IN  [d |-> l.d \o h.d, c |-> h.c]

\* 10^n - 1 - b, on n digits
NinesComplement(b, n) == <<>> \o [i \in 1..n |-> 9 - DigitAt(b, i)]

\* a + b
\* the digits d with the carry c out of the top digit
WithCarry(r) == IF r.c = 0 THEN r.d ELSE Append(r.d, r.c)

MagAdd(a, b) ==
    IF a = <<>> THEN b
    ELSE IF b = <<>> THEN a
    ELSE WithCarry(AddRange(a, b, 1, IF Len(a) > Len(b) THEN Len(a) ELSE Len(b), 0))

\* a - b, for a >= b
MagSub(a, b) ==
    IF b = <<>> THEN a
    ELSE Trim(AddRange(a, NinesComplement(b, Len(a)), 1, Len(a), 1).d)

\* a * k for a digit k
MagMulDigit(a, k) ==
    IF a = <<>> \/ k = 0 THEN <<>>
    ELSE IF k = 1 THEN a
    ELSE WithCarry(MulDigitRange(a, k, 1, Len(a), 0))

\* a * 10^k
MagShift(a, k) == IF a = <<>> THEN a ELSE [i \in 1..k |-> 0] \o a

\* the sum of b * a[i] * 10^(i-1) for i in lo..hi
RECURSIVE MulRange(_, _, _, _)
MulRange(a, b, lo, hi) ==
    IF lo = hi THEN MagShift(MagMulDigit(b, a[lo]), lo - 1)
    ELSE LET mid == (lo + hi) \div 2
         IN  MagAdd(MulRange(a, b, lo, mid), MulRange(a, b, mid + 1, hi))

\* a * b
MagMul(a, b) ==
    IF a = <<>> \/ b = <<>> THEN <<>>
    ELSE IF Len(a) <= Len(b) THEN MulRange(a, b, 1, Len(a))
    ELSE MulRange(b, a, 1, Len(b))

\* x + y
BigAdd(x, y) ==
    IF x.neg = y.neg THEN BigInt(x.neg, MagAdd(x.mag, y.mag))
    ELSE IF MagCmp(x.mag, y.mag) >= 0 THEN BigInt(x.neg, MagSub(x.mag, y.mag))
    ELSE BigInt(y.neg, MagSub(y.mag, x.mag))

\* x * y
BigMul(x, y) == BigInt(x.neg /= y.neg, MagMul(x.mag, y.mag))

\* x > 0
BigPositive(x) == ~x.neg /\ x.mag /= <<>>

\* sum(s)
RECURSIVE SumSeq(_)
SumSeq(s) == IF s = <<>> THEN BigOf(0) ELSE BigAdd(Head(s), SumSeq(Tail(s)))

-----------------------------------------------------------------------------
(* Python floats *)

\* a * a
MagSquare(a) == MagMul(a, a)

\* 2^k
RECURSIVE MagPow2(_)
MagPow2(k) ==
    IF k = 0 THEN <<1>>
    ELSE MagMulDigit(MagSquare(MagPow2(k \div 2)), IF k % 2 = 0 THEN 1 ELSE 2)

\* the least magnitude that no longer rounds to a float (IEEE 754 binary64):
\* 2^1024 - 2^970, half a unit in the last place above the largest float
FloatOverflowAt == MagSub(MagPow2(1024), MagPow2(970))

\* n / d >= t, for the magnitudes n, d /= 0 and t; the full comparison is made
\* only when the digit counts do not settle it
Exceeds(n, d, t) ==
    IF Len(n) < Len(t) - 1 + Len(d) THEN FALSE
    ELSE IF Len(n) > Len(t) + Len(d) THEN TRUE
    ELSE MagCmp(n, MagMul(t, d)) >= 0

\* |n / d| is out of the float range (d /= 0)
OutOfRange(n, d) == Exceeds(n.mag, d.mag, FloatOverflowAt)

\* the finite float n/d, d /= 0
Float(n, d) == [t |-> "float", num |-> BigInt(n.neg /= d.neg, n.mag), den |-> BigInt(FALSE, d.mag)]

\* float('inf'), float('-inf')
Inf(neg) == [t |-> "float", inf |-> IF neg THEN "-" ELSE "+"]

\* n / d on ints, d /= 0: the float, or OverflowError
TrueDiv(n, d) == IF OutOfRange(n, d) THEN Fail("OverflowError") ELSE Ok(Float(n, d))

\* n / d > t, for the magnitudes n, d /= 0 and t
Above(n, d, t) ==
    IF Len(n) < Len(t) - 1 + Len(d) THEN FALSE
    ELSE IF Len(n) > Len(t) + Len(d) THEN TRUE
    ELSE MagCmp(n, MagMul(t, d)) > 0

\* The least float whose product with 100.0 rounds out of the range is
\* k * 2^965 with k = 5764607523034235, the least k with
\* 100 * k >= 2^59 - 2^5.  A quotient rounds to that float or to a larger
\* one when it is above the midpoint (2k - 1) * 2^964 to the float below;
\* the midpoint itself rounds to the even neighbour, k - 1.
\* 2k - 1 = 11529215046068469, least significant digit first:
Times100InfAbove ==
    MagMul(<<9, 6, 4, 8, 6, 0, 6, 4, 0, 5, 1, 2, 9, 2, 5, 1, 1>>, MagPow2(964))

\* q * 100.0 on the float q of a quotient: no exception, inf past the range
Times100(q) ==
    IF Above(q.num.mag, q.den.mag, Times100InfAbove) THEN Inf(q.num.neg)
    ELSE Float(BigMul(q.num, BigOf(100)), q.den)

-----------------------------------------------------------------------------
(* int(x) on the payload of a variable binding *)

DigitValues ==
    "0" :> 0 @@ "1" :> 1 @@ "2" :> 2 @@ "3" :> 3 @@ "4" :> 4 @@
    "5" :> 5 @@ "6" :> 6 @@ "7" :> 7 @@ "8" :> 8 @@ "9" :> 9

DigitChars == DOMAIN DigitValues

DigitVal(c) == DigitValues[c]


\* the ASCII whitespace int() strips: space, \t, \n, \r, form feed and
\* vertical tab (0x0b, which has no escape and stands in the string as itself)
Whitespace == {" ", "\t", "\n", "\r", "\f", ""}

RECURSIVE LStrip(_)
LStrip(s) == IF s /= <<>> /\ Head(s) \in Whitespace THEN LStrip(Tail(s)) ELSE s

RECURSIVE RStrip(_)
RStrip(s) ==
    IF s /= <<>> /\ s[Len(s)] \in Whitespace
    THEN RStrip(SubSeq(s, 1, Len(s) - 1)) ELSE s

\* digits, with single underscores between them
IsDigits(s) ==
    /\ s /= <<>>
    /\ s[1] \in DigitChars
    /\ s[Len(s)] \in DigitChars
    /\ \A i \in 1..Len(s) :
         \/ s[i] \in DigitChars
         \/ s[i] = "_" /\ s[i + 1] /= "_"

\* the digits of s, least significant first, underscores dropped
Reversed(ds) == <<>> \o [i \in 1..Len(ds) |-> DigitVal(ds[Len(ds) + 1 - i])]

DigitsMag(s) ==
    IF \A i \in 1..Len(s) : s[i] /= "_" THEN Reversed(s)
    ELSE Reversed(SelectSeq(s, LAMBDA c : c /= "_"))

\* sys.int_info.default_max_str_digits of CPython 3.11: int() of a literal
\* with more digits raises ValueError
MaxStrDigits == 4300

\* the number of digits of the digit part s (leading zeros count, underscores
\* do not)
DigitCount(s) ==
    IF \A i \in 1..Len(s) : s[i] /= "_" THEN Len(s)
    ELSE Len(SelectSeq(s, LAMBDA c : c /= "_"))

\* the int of the digit part of the literal
IntOfDigits(neg, body) ==
    IF DigitCount(body) <= MaxStrDigits /\ IsDigits(body)
    THEN Ok(BigInt(neg, Trim(DigitsMag(body))))
    ELSE Fail("ValueError")

\* the int of the literal s without the whitespace around it
IntOfStripped(s) ==
    IF s /= <<>> /\ Head(s) \in {"-", "+"}
    THEN IntOfDigits(Head(s) = "-", Tail(s))
    ELSE IntOfDigits(FALSE, s)

\* int(x): the int, or the exception raised
PyInt(x) == IntOfStripped(RStrip(LStrip(x)))

\* the int h in front of the ints of the rest, or the first exception raised
ConsInt(h, rest) ==
    IF ~h.ok THEN h
    ELSE IF ~rest.ok THEN rest
    ELSE Ok(<<h.val>> \o rest.val)

\* [int(x) for x in values]: the list, or the first exception raised
RECURSIVE IntList(_)
IntList(values) ==
    IF values = <<>> THEN Ok(<<>>)
    ELSE ConsInt(PyInt(Head(values)), IntList(Tail(values)))

\* `except ValueError:` catches the exception e
Catches(e) == e = "ValueError"

-----------------------------------------------------------------------------
(* The transport, and snmp_get / snmp_walk on top of it *)

DefaultPort == 161

OidSysUpTime == "1.3.6.1.2.1.1.3.0"
OidSysName == "1.3.6.1.2.1.1.5.0"
OidProcessorLoad == "1.3.6.1.2.1.25.3.3.1.2"
OidStorageUsed == "1.3.6.1.2.1.25.2.3.1.6"
OidStorageSize == "1.3.6.1.2.1.25.2.3.1.5"
OidIfOperStatus == "1.3.6.1.2.1.2.2.1.8"

\* one response of the agent: (errorIndication, errorStatus, varBinds)
Response(ind, st, vbs) == [errorIndication |-> ind, errorStatus |-> st, varBinds |-> vbs]

\* `if errorIndication or errorStatus`
IsError(r) == r.errorIndication /= "" \/ r.errorStatus /= 0

\* snmp_get: None on error, else prettyPrint() of the first variable binding
SnmpGet(r) ==
    IF IsError(r) THEN None
    ELSE IF r.varBinds = <<>> THEN None
    ELSE Str(r.varBinds[1])

\* snmp_walk: the values of the responses up to the first error
RECURSIVE SnmpWalk(_)
SnmpWalk(rs) ==
    IF rs = <<>> THEN <<>>
    ELSE IF IsError(Head(rs)) THEN <<>>
    ELSE Head(rs).varBinds \o SnmpWalk(Tail(rs))

\* the call as the transport sees it
Query(op, dev, oid) ==
    [op |-> op,
     community |-> DictGet(dev, "community", Str("public")),
     ip |-> DictGet(dev, "ip", None),
     oid |-> oid,
     port |-> DictGet(dev, "port", IntVal(DefaultPort))]

-----------------------------------------------------------------------------
(* get_device_metrics, block by block *)

\* what a block leaves behind: the dict, and the exception it let through
Done(m) == [metrics |-> m, exc |-> ""]
Raise(m, e) == [metrics |-> m, exc |-> e]

\* `metrics = {}`
NewMetrics == EmptyDict

\* `if sys_up_time is None`
ProbeFailed_never(v) == FALSE
ProbeFailed(v) == v = None

\* the offline return
OfflineMetrics_keepname(m) == SetKey(SetKey(m, "status", Str("offline")), "sysName", None)
OfflineMetrics(m) == SetKey(m, "status", Str("offline"))

\* status, sysUpTime and sysName of a device that answered the probe
OnlineHead(m, up, name) ==
    SetKey(SetKey(SetKey(m, "status", Str("online")), "sysUpTime", up), "sysName", name)

\* `try: metrics[k] = <r>` with `except ValueError: metrics[k] = None`, for
\* the outcome r of the right-hand side
TryAssign(m, k, r) ==
    IF r.ok THEN Done(SetKey(m, k, r.val))
    ELSE IF Catches(r.exc) THEN Done(SetKey(m, k, None))
    ELSE Raise(m, r.exc)

\* sum(cpu_ints) / len(cpu_ints), for the outcome of the list comprehension
Mean(cpu_ints) ==
    IF cpu_ints.ok
    THEN TrueDiv(SumSeq(cpu_ints.val), BigOf(Len(cpu_ints.val)))
    ELSE cpu_ints

\* CPU load: average of the hrProcessorLoad values
CpuBlock(m, values) ==
    IF values /= <<>>
    THEN TryAssign(m, "cpuLoad", Mean(IntList(values)))
    ELSE Done(SetKey(m, "cpuLoad", None))

\* `if size_total > 0`
SizeUsable(size_total) == BigPositive(size_total)

\* sum(int(u) for u in values), for the outcome of the int(u)
Total(ints) == IF ints.ok THEN Ok(SumSeq(ints.val)) ELSE ints

\* q * 100.0, for the outcome q of the division
Percent(q) == IF q.ok THEN Ok(Times100(q.val)) ELSE q

\* the right-hand side of metrics['memoryUsage'], for the outcomes of the sums
Usage(used_total, size_total) ==
    IF ~used_total.ok THEN used_total
    ELSE IF ~size_total.ok THEN size_total
    ELSE IF SizeUsable(size_total.val)
    THEN Percent(TrueDiv(used_total.val, size_total.val))
    ELSE Ok(None)

\* memory usage from the hrStorageUsed / hrStorageSize tables
MemBlock(m, used, size) ==
    IF used /= <<>> /\ size /= <<>> /\ Len(used) = Len(size)
    THEN TryAssign(m, "memoryUsage", Usage(Total(IntList(used)), Total(IntList(size))))
    ELSE Done(SetKey(m, "memoryUsage", None))

\* the three interface fields, all None
NoInterfaces_partial(m) ==
    SetKey(SetKey(m, "interfacesUp", None), "interfacesUpPct", None)
NoInterfaces(m) ==
    SetKey(SetKey(SetKey(m, "interfacesUp", None), "interfacesTotal", None),
           "interfacesUpPct", None)

\* `sum(1 for s in statuses_int if s == 1)`
UpCount_nonzero(ints) == Len(SelectSeq(ints, LAMBDA s : s /= BigOf(0)))
UpCount(ints) == Len(SelectSeq(ints, LAMBDA s : s = BigOf(1)))

\* the three interface fields of up_count interfaces up out of total (> 0)
Counted(m, up_count, total) ==
    SetKey(SetKey(SetKey(m,
        "interfacesUp", IntVal(up_count)),
        "interfacesTotal", IntVal(total)),
        "interfacesUpPct", Times100(TrueDiv(BigOf(up_count), BigOf(total)).val))

\* the try block, for the outcome of the list comprehension
IfParsed(m, statuses_int) ==
    IF statuses_int.ok
    THEN Done(Counted(m, UpCount(statuses_int.val), Len(statuses_int.val)))
    ELSE IF Catches(statuses_int.exc) THEN Done(NoInterfaces(m))
    ELSE Raise(m, statuses_int.exc)

\* interface statuses: how many interfaces are up
IfBlock(m, values) ==
    IF values /= <<>> THEN IfParsed(m, IntList(values)) ELSE Done(NoInterfaces(m))

\* the queries of a call that got past the probe, in the order issued
OnlineQueries(dev) ==
    << Query("GET", dev, OidSysUpTime), Query("GET", dev, OidSysName),
       Query("WALK", dev, OidProcessorLoad), Query("WALK", dev, OidStorageUsed),
       Query("WALK", dev, OidStorageSize), Query("WALK", dev, OidIfOperStatus) >>

\* the end of the call, after the interface block
AfterIf(dev, b4) == [metrics |-> b4.metrics, exc |-> b4.exc, trace |-> OnlineQueries(dev)]

\* the call from the interface walk on
AfterMem(dev, a, b3) ==
    IF b3.exc /= ""
    THEN [metrics |-> b3.metrics, exc |-> b3.exc, trace |-> SubSeq(OnlineQueries(dev), 1, 5)]
    ELSE AfterIf(dev, IfBlock(b3.metrics, SnmpWalk(a.ifs)))

\* the call from the storage walks on
AfterCpu(dev, a, b2) ==
    IF b2.exc /= ""
    THEN [metrics |-> b2.metrics, exc |-> b2.exc, trace |-> SubSeq(OnlineQueries(dev), 1, 3)]
    ELSE AfterMem(dev, a, MemBlock(b2.metrics, SnmpWalk(a.used), SnmpWalk(a.size)))

\* the call after the probe returned up
Probed(dev, a, up) ==
    IF ProbeFailed(up)
    THEN [metrics |-> OfflineMetrics(NewMetrics), exc |-> "",
          trace |-> SubSeq(OnlineQueries(dev), 1, 1)]
    ELSE AfterCpu(dev, a, CpuBlock(OnlineHead(NewMetrics, up, SnmpGet(a.name)),
                                   SnmpWalk(a.cpu)))

\* get_device_metrics(dev) against an agent that answers a.up, a.name to the
\* two GETs and a.cpu, a.used, a.size, a.ifs to the four WALKs:
\* the dict returned (or the exception raised) and the queries issued
GetDeviceMetrics(dev, a) == Probed(dev, a, SnmpGet(a.up))

-----------------------------------------------------------------------------
(* build_statuses and build_status_summary *)

\* the dict appended for one device
StatusRecord_noip(dev, m) ==
    Dict([name |-> DictGet(dev, "name", None), ip |-> DictGet(dev, "ip", None),
          metrics |-> m])
StatusRecord(dev, m) ==
    Dict([name |-> DictGet(dev, "name", DictGet(dev, "ip", None)),
          ip |-> DictGet(dev, "ip", None),
          metrics |-> m])

\* `statuses.append(rec)`
AppendStatus_front(sts, rec) == <<rec>> \o sts
AppendStatus(sts, rec) == Append(sts, rec)

\* `m.get('status')` on the value m of device.get('metrics', {}): the status,
\* or the AttributeError of .get on a value that is no dict
GetStatus(m) == IF IsDict(m) THEN Ok(DictGet(m, "status", None)) ELSE Fail("AttributeError")

\* `device.get('metrics', {}).get('status')`: the status, or the
\* AttributeError of .get on a device or a 'metrics' value that is no dict
StatusOf(st) ==
    IF IsDict(st) THEN GetStatus(DictGet(st, "metrics", EmptyDict))
    ELSE Fail("AttributeError")

\* `status == 'online'`
CountsOnline(status) == status = Str("online")

\* one turn of the loop of build_status_summary: the counts, or the exception
Tally_onlineonly(sm, st) ==
    LET status == StatusOf(st)
    IN  IF ~status.ok THEN [value |-> sm, exc |-> status.exc]
        ELSE IF CountsOnline(status.val)
        THEN [value |-> [sm EXCEPT !.online = @ + 1], exc |-> ""]
        ELSE IF status.val = Str("offline")
        THEN [value |-> [sm EXCEPT !.offline = @ + 1], exc |-> ""]
        ELSE [value |-> sm, exc |-> ""]
Tally(sm, st) ==
    LET status == StatusOf(st)
    IN  IF ~status.ok THEN [value |-> sm, exc |-> status.exc]
        ELSE IF CountsOnline(status.val)
        THEN [value |-> [sm EXCEPT !.online = @ + 1], exc |-> ""]
        ELSE [value |-> [sm EXCEPT !.offline = @ + 1], exc |-> ""]

RECURSIVE SummaryLoop(_, _)
SummaryLoop(sm, sts) ==
    IF sts = <<>> THEN [value |-> sm, exc |-> ""]
    ELSE LET r == Tally(sm, Head(sts))
         IN  IF r.exc /= "" THEN r ELSE SummaryLoop(r.value, Tail(sts))

\* build_status_summary(sts): the dict returned, or the exception raised
BuildStatusSummary(sts) == SummaryLoop([online |-> 0, offline |-> 0], sts)

-----------------------------------------------------------------------------
(* Inputs: device descriptors, agents, status lists *)

DevNoName == Dict([ip |-> Str("10.0.0.5")])
DevNamed == Dict([name |-> Str("core-sw"), ip |-> Str("10.0.0.5")])
DevFull ==
    Dict([name |-> Str("edge-rtr"), ip |-> Str("10.0.0.6"),
          community |-> Str("private"), port |-> IntVal(1161)])

Descriptors == {DevNoName, DevNamed, DevFull}

\* get_device_metrics reads ip, community and port, never the name
MetricsDescriptors == {DevNoName, DevFull}

SeqsUpTo(S, n) == UNION {[1..k -> S] : k \in 0..n}

\* responses of the transport
TimedOut == Response("requestTimedOut", 0, <<>>)
ErrorStatus == Response("", 2, <<>>)
Value(v) == Response("", 0, <<v>>)

GetResponses(v) == {TimedOut, ErrorStatus, Response("", 0, <<>>), Value(v)}

\* payloads of the values of a walked column
\* an int past the float range: 10^309, the least power of ten no float holds
Huge == <<"1">> \o [i \in 1..309 |-> "0"]

\* hrProcessorLoad, hrStorageUsed, hrStorageSize
Entries == {<<"1">>, <<"-", "1">>, <<"x">>, Huge}

\* ifOperStatus: up, down (with whitespace around it), not a number
IfEntries == {<<"1">>, <<"\t", "2", "\n">>, <<"x">>}

\* the responses nextCmd yields to one walk: at most MaxWalk, an error only
\* as the last one (the loop breaks there and asks for no more)
WalksOf(payloads) ==
    LET rows == SeqsUpTo({Value(e) : e \in payloads}, MaxWalk)
    IN  rows \cup {Append(r, last) : r \in {v \in rows : Len(v) < MaxWalk},
                                    last \in {TimedOut, ErrorStatus}}

WalkResponses == WalksOf(Entries)

\* a literal of one digit more than int() accepts
Long == <<>> \o [i \in 1..(MaxStrDigits + 1) |-> "1"]

\* the walks of hrProcessorLoad: those of any column, and one with Long
CpuWalkResponses == WalkResponses \cup {<<Value(Long)>>}

\* the walks of ifOperStatus, and one with Long
IfWalkResponses == WalksOf(IfEntries) \cup {<<Value(Long), Value(<<"1">>)>>}

\* whole agents, for the scan of a fleet
Agent(up, name, cpu, used, size, ifs) ==
    [up |-> up, name |-> name, cpu |-> cpu, used |-> used, size |-> size, ifs |-> ifs]

AgentDown == Agent(TimedOut, TimedOut, <<TimedOut>>, <<TimedOut>>, <<TimedOut>>, <<TimedOut>>)
AgentRefusing ==
    Agent(ErrorStatus, Value("router1"), <<Value(<<"1">>)>>, <<Value(<<"1">>)>>,
          <<Value(<<"1">>)>>, <<Value(<<"1">>)>>)
AgentHealthy ==
    Agent(Value("12345"), Value("router1"),
          <<Value(<<"1", "0">>), Value(<<"2", "0">>), Value(<<"3", "0">>)>>,
          <<Value(<<"5", "0">>), Value(<<"5", "0">>)>>,
          <<Value(<<"1", "0", "0">>), Value(<<"1", "0", "0">>)>>,
          <<Value(<<"1">>), Value(<<"1">>), Value(<<"2">>)>>)
AgentMute ==
    Agent(Value("12345"), TimedOut, <<TimedOut>>, <<>>, <<ErrorStatus>>, <<TimedOut>>)
AgentCorrupt ==
    Agent(Value("777"), Value("router2"),
          <<Value(<<"1", "0">>), Value(<<"x">>), Value(<<"3", "0">>)>>,
          <<Value(<<"x">>)>>, <<Value(<<"1">>)>>,
          <<Value(<<"1">>), Value(<<>>)>>)
AgentPartial ==
    Agent(Value("777"), Response("", 0, <<>>),
          <<Value(<<"4">>), TimedOut, Value(<<"8">>)>>,
          <<Value(<<"5">>), Value(<<"5">>)>>,
          <<Value(<<"0">>), TimedOut>>,
          <<Value(<<"2">>), Value(<<" ", "1">>)>>)

AgentHuge ==
    Agent(Value("12345"), Value("router3"),
          <<Value(Huge)>>, <<Value(<<"1">>)>>, <<Value(<<"2">>)>>, <<Value(<<"1">>)>>)

\* the agents by name, and what each answers
Agents == {"down", "refusing", "healthy", "mute", "corrupt", "partial", "huge"}

Answers(a) ==
    CASE a = "down" -> AgentDown
      [] a = "refusing" -> AgentRefusing
      [] a = "healthy" -> AgentHealthy
      [] a = "mute" -> AgentMute
      [] a = "corrupt" -> AgentCorrupt
      [] a = "partial" -> AgentPartial
      [] a = "huge" -> AgentHuge

\* status dicts a caller may hand to build_status_summary
StatusWith(m) == Dict([name |-> Str("a"), ip |-> Str("10.0.0.5"), metrics |-> m])

SomeStatuses ==
    { StatusWith(Dict([status |-> Str("online")])),
      StatusWith(Dict([status |-> Str("offline")])),
      StatusWith(Dict([status |-> Str("Online")])),
      StatusWith(Dict([status |-> None])),
      StatusWith(Dict([t |-> Str("x"), status |-> Str("online")])),
      StatusWith(EmptyDict),
      StatusWith(None),
      Dict([name |-> Str("a"), ip |-> Str("10.0.0.5")]),
      None }

-----------------------------------------------------------------------------
(* get_device_metrics, one query at a time *)

InitMetrics ==
    /\ entry = "get_device_metrics"
    /\ pc = "probe"
    /\ config = <<>>
    /\ device \in MetricsDescriptors
    /\ metrics = Unset
    /\ trace = <<>>
    /\ sys_up_time = Unset
    /\ cpu_load_values = Unset
    /\ used_values = Unset
    /\ size_values = Unset
    /\ if_statuses = Unset
    /\ agents = <<>>
    /\ statuses = <<>>
    /\ summary = Unset
    /\ exc = ""

\* where a block hands over to: the next statement, or out of the function
After(b, next) == IF b.exc = "" THEN next ELSE "raised"

\* the block b has run: its metrics, and the exception it let through
Lands(b, next) ==
    /\ metrics' = b.metrics
    /\ exc' = b.exc
    /\ pc' = After(b, next)

Probe ==
    /\ pc = "probe"
    /\ \E r \in GetResponses("12345") :
         LET up == SnmpGet(r)
         IN  /\ sys_up_time' = up
             /\ IF ProbeFailed(up)
                THEN metrics' = OfflineMetrics(NewMetrics) /\ pc' = "returned"
                ELSE metrics' = NewMetrics /\ pc' = "sysname"
    /\ trace' = Append(trace, Query("GET", device, OidSysUpTime))
    /\ UNCHANGED <<entry, config, device, cpu_load_values, used_values, size_values,
                   if_statuses, agents, statuses, summary, exc>>

SysName ==
    /\ pc = "sysname"
    /\ \E r \in GetResponses("router1") :
         metrics' = OnlineHead(metrics, sys_up_time, SnmpGet(r))
    /\ trace' = Append(trace, Query("GET", device, OidSysName))
    /\ pc' = "cpu"
    /\ UNCHANGED <<entry, config, device, sys_up_time, cpu_load_values, used_values,
                   size_values, if_statuses, agents, statuses, summary, exc>>

CpuLoad ==
    /\ pc = "cpu"
    /\ \E rs \in CpuWalkResponses :
         /\ cpu_load_values' = SnmpWalk(rs)
         /\ Lands(CpuBlock(metrics, SnmpWalk(rs)), "used")
    /\ trace' = Append(trace, Query("WALK", device, OidProcessorLoad))
    /\ UNCHANGED <<entry, config, device, sys_up_time, used_values, size_values,
                   if_statuses, agents, statuses, summary>>

\* cpu_load_values is not read again: the model forgets it here
WalkUsed ==
    /\ pc = "used"
    /\ \E rs \in WalkResponses : used_values' = SnmpWalk(rs)
    /\ cpu_load_values' = Unset
    /\ trace' = Append(trace, Query("WALK", device, OidStorageUsed))
    /\ pc' = "size"
    /\ UNCHANGED <<entry, config, device, metrics, sys_up_time, size_values,
                   if_statuses, agents, statuses, summary, exc>>

WalkSize ==
    /\ pc = "size"
    /\ \E rs \in WalkResponses : size_values' = SnmpWalk(rs)
    /\ trace' = Append(trace, Query("WALK", device, OidStorageSize))
    /\ pc' = "mem"
    /\ UNCHANGED <<entry, config, device, metrics, sys_up_time, cpu_load_values,
                   used_values, if_statuses, agents, statuses, summary, exc>>

\* used_values and size_values are not read again: the model forgets them here
MemoryUsage ==
    /\ pc = "mem"
    /\ Lands(MemBlock(metrics, used_values, size_values), "ifs")
    /\ used_values' = Unset
    /\ size_values' = Unset
    /\ UNCHANGED <<entry, config, device, trace, sys_up_time, cpu_load_values,
                   if_statuses, agents, statuses, summary>>

Interfaces ==
    /\ pc = "ifs"
    /\ \E rs \in IfWalkResponses :
         /\ if_statuses' = SnmpWalk(rs)
         /\ Lands(IfBlock(metrics, SnmpWalk(rs)), "returned")
    /\ trace' = Append(trace, Query("WALK", device, OidIfOperStatus))
    /\ UNCHANGED <<entry, config, device, sys_up_time, cpu_load_values, used_values,
                   size_values, agents, statuses, summary>>

NextMetrics ==
    Probe \/ SysName \/ CpuLoad \/ WalkUsed \/ WalkSize \/ MemoryUsage \/ Interfaces

SpecMetrics == InitMetrics /\ [][NextMetrics]_vars

-----------------------------------------------------------------------------
(* api_summary: build_statuses over the configured devices, then             *)
(* build_status_summary; and build_status_summary called on a list of its own *)

InitScan ==
    /\ entry = "build_statuses"
    /\ pc = "loop"
    /\ config \in SeqsUpTo(Descriptors, MaxDevices)
    /\ statuses = <<>>

InitSummary ==
    /\ entry = "build_status_summary"
    /\ pc = "summarize"
    /\ config = <<>>
    /\ statuses \in SeqsUpTo(SomeStatuses, MaxDevices)

Init ==
    /\ InitScan \/ InitSummary
    /\ device = Unset
    /\ metrics = Unset
    /\ trace = <<>>
    /\ sys_up_time = Unset
    /\ cpu_load_values = Unset
    /\ used_values = Unset
    /\ size_values = Unset
    /\ if_statuses = Unset
    /\ agents = <<>>
    /\ summary = Unset
    /\ exc = ""

\* one turn of the loop of build_statuses: the whole call of get_device_metrics
\* for the next device and the append of its record
\* the loop body, for the outcome r of get_device_metrics(dev): the record
\* is appended, or the exception leaves build_statuses
Scanned(dev, a, r) ==
    /\ device' = dev
    /\ metrics' = r.metrics
    /\ trace' = r.trace
    /\ exc' = r.exc
    /\ IF r.exc = ""
       THEN /\ statuses' = AppendStatus(statuses, StatusRecord(dev, r.metrics))
            /\ agents' = Append(agents, a)
            /\ pc' = "loop"
       ELSE /\ pc' = "raised"
            /\ UNCHANGED <<statuses, agents>>

ScanDevice ==
    /\ pc = "loop"
    /\ Len(agents) < Len(config)
    /\ \E a \in Agents :
         Scanned(config[Len(agents) + 1], a,
                 GetDeviceMetrics(config[Len(agents) + 1], Answers(a)))
    /\ UNCHANGED <<entry, config, sys_up_time, cpu_load_values, used_values,
                   size_values, if_statuses, summary>>

\* the loop is over: build_statuses returns its list to api_summary
ScanReturn ==
    /\ pc = "loop"
    /\ Len(agents) = Len(config)
    /\ pc' = "summarize"
    /\ UNCHANGED <<entry, config, device, metrics, trace, sys_up_time, cpu_load_values,
                   used_values, size_values, if_statuses, agents, statuses, summary, exc>>

\* build_status_summary returned r.value, or raised
Summarized(r) ==
    /\ exc' = r.exc
    /\ IF r.exc = ""
       THEN summary' = r.value /\ pc' = "done"
       ELSE summary' = summary /\ pc' = "raised"

Summarize ==
    /\ pc = "summarize"
    /\ Summarized(BuildStatusSummary(statuses))
    /\ UNCHANGED <<entry, config, device, metrics, trace, sys_up_time, cpu_load_values,
                   used_values, size_values, if_statuses, agents, statuses>>

Next == ScanDevice \/ ScanReturn \/ Summarize

Spec == Init /\ [][Next]_vars

-----------------------------------------------------------------------------
(* Properties of get_device_metrics (checked under SpecMetrics) *)

OnlineKeys ==
    {"status", "sysUpTime", "sysName", "cpuLoad", "memoryUsage",
     "interfacesUp", "interfacesTotal", "interfacesUpPct"}

Parses(x) == PyInt(x).ok
AllParse(values) == \A i \in 1..Len(values) : Parses(values[i])
SumOf(values) == SumSeq([i \in 1..Len(values) |-> PyInt(values[i]).val])

\* the float v is finite and is the fraction n/d
IsRatio(v, n, d) ==
    /\ v.t = "float"
    /\ "num" \in DOMAIN v
    /\ BigMul(v.num, d) = BigMul(n, v.den)

\* C1: when the probe (the GET of sysUpTime, always the first query) returns
\* None, the call has returned and its query trace is exactly that probe.
C1_ProbeShortCircuit ==
    /\ trace /= <<>> => trace[1] = Query("GET", device, OidSysUpTime)
    /\ sys_up_time = None =>
         /\ pc = "returned"
         /\ trace = <<Query("GET", device, OidSysUpTime)>>

C1_Witness ==
    /\ pc = "returned"
    /\ sys_up_time = None
    /\ Len(trace) = 1
    /\ metrics = Dict([status |-> Str("offline")])
    /\ device = DevFull

\* C3: a returned online record has the status key and all seven metric keys,
\* whatever the sysName GET and the four walks answered.
C3_OnlineKeysPresent ==
    (pc = "returned" /\ Item(metrics, "status") = Str("online")) =>
        Keys(metrics) = OnlineKeys

C3_Witness ==
    /\ pc = "returned"
    /\ Item(metrics, "status") = Str("online")
    /\ Item(metrics, "sysName") = None
    /\ Item(metrics, "cpuLoad") = None
    /\ Item(metrics, "memoryUsage") /= None
    /\ Item(metrics, "interfacesUp") = None
    /\ if_statuses = << <<"1">>, <<"x">> >>

\* C7: memoryUsage is None exactly when a walk is empty, the walks differ in
\* length, an entry does not parse, or the sizes sum to 0; otherwise the
\* block completes and memoryUsage is 100 * sum(used) / sum(size).
C7_NullCases ==
    \/ used_values = <<>>
    \/ size_values = <<>>
    \/ Len(used_values) /= Len(size_values)
    \/ ~AllParse(used_values)
    \/ ~AllParse(size_values)
    \/ SumOf(size_values) = BigOf(0)

C7_MemoryUsage ==
    [][pc = "mem" =>
        /\ pc' = "ifs"
        /\ "memoryUsage" \in Keys(metrics')
        /\ IF C7_NullCases
           THEN Item(metrics', "memoryUsage") = None
           ELSE IsRatio(Item(metrics', "memoryUsage"),
                        BigMul(BigOf(100), SumOf(used_values)), SumOf(size_values))]_vars

\* C8: once the processor-load walk is in, cpuLoad is the mean of the walked
\* entries when there is at least one and all parse, and None when the walk
\* is empty or some entry does not parse.
C8_CpuLoad ==
    (pc = "used" \/ (pc = "raised" /\ Len(trace) = 3)) =>
        /\ pc = "used"
        /\ IF cpu_load_values /= <<>> /\ AllParse(cpu_load_values)
           THEN IsRatio(Item(metrics, "cpuLoad"), SumOf(cpu_load_values),
                        BigOf(Len(cpu_load_values)))
           ELSE Item(metrics, "cpuLoad") = None

\* C9: in a returned online record the three interface fields are all None or
\* all set; set when the walk is non-empty and all entries parse, with
\* interfacesUp the number of entries equal to 1, interfacesTotal the length
\* of the walk and interfacesUpPct 100 * up / total.
C9_UpEntries == {i \in 1..Len(if_statuses) : PyInt(if_statuses[i]).val = BigOf(1)}

C9_Interfaces ==
    (pc = "returned" /\ Item(metrics, "status") = Str("online")) =>
        /\ {"interfacesUp", "interfacesTotal", "interfacesUpPct"} \subseteq Keys(metrics)
        /\ IF if_statuses /= <<>> /\ AllParse(if_statuses)
           THEN /\ Item(metrics, "interfacesUp") = IntVal(Cardinality(C9_UpEntries))
                /\ Item(metrics, "interfacesTotal") = IntVal(Len(if_statuses))
                /\ IsRatio(Item(metrics, "interfacesUpPct"),
                           BigOf(100 * Cardinality(C9_UpEntries)),
                           BigOf(Len(if_statuses)))
           ELSE /\ Item(metrics, "interfacesUp") = None
                /\ Item(metrics, "interfacesTotal") = None
                /\ Item(metrics, "interfacesUpPct") = None

C9_Witness ==
    /\ pc = "returned"
    /\ Item(metrics, "status") = Str("online")
    /\ if_statuses = << <<"1">>, <<"\t", "2", "\n">> >>
    /\ Item(metrics, "interfacesUp") = IntVal(1)
    /\ Item(metrics, "interfacesTotal") = IntVal(2)

-----------------------------------------------------------------------------
(* Properties of the scan and of the summary (checked under Spec) *)

Scanning == entry = "build_statuses"

\* C2: an offline record of a scan has the key status and no other key.
C2_OfflineOnlyStatus ==
    Scanning =>
        \A i \in 1..Len(statuses) :
            Item(Item(statuses[i], "metrics"), "status") = Str("offline") =>
                Keys(Item(statuses[i], "metrics")) = {"status"}

C2_Witness ==
    /\ Scanning
    /\ pc = "done"
    /\ \E i, j \in 1..Len(statuses) :
         /\ i < j
         /\ Item(Item(statuses[i], "metrics"), "status") = Str("online")
         /\ Item(Item(statuses[j], "metrics"), "status") = Str("offline")

\* C4: no answer of a device makes the scan raise, and the record of a device
\* depends on that device's own answers only: two devices of a scan that
\* answered the same have the same metrics, whatever was scanned before them.
C4_Isolation ==
    Scanning =>
        /\ pc /= "raised"
        /\ exc = ""
        /\ Len(statuses) = Len(agents)
        /\ \A i, j \in 1..Len(statuses) :
             agents[i] = agents[j] => Item(statuses[i], "metrics") = Item(statuses[j], "metrics")

\* C5: the scan returns one record per descriptor, in the order of the device
\* list: record i carries the ip of descriptor i.
C5_OrderPreserved ==
    Scanning =>
        /\ Len(statuses) <= Len(config)
        /\ pc \in {"summarize", "done"} => Len(statuses) = Len(config)
        /\ \A i \in 1..Len(statuses) : Item(statuses[i], "ip") = Item(config[i], "ip")

C5_Witness ==
    /\ Scanning
    /\ pc = "done"
    /\ config = <<DevFull, DevNoName, DevNamed>>
    /\ agents = <<"healthy", "down", "mute">>

\* C6: the summary counts every status once: online + offline is the length
\* of the list, for the list of a scan and for any list handed in.
C6_SummaryTotal ==
    pc = "done" =>
        /\ summary.online >= 0
        /\ summary.offline >= 0
        /\ summary.online + summary.offline = Len(statuses)

C6_Witness ==
    /\ entry = "build_status_summary"
    /\ pc = "done"
    /\ Len(statuses) = 3
    /\ "metrics" \notin Keys(statuses[1])
    /\ DictGet(statuses[2], "metrics", None) = Dict([status |-> Str("Online")])
    /\ DictGet(statuses[3], "metrics", None) =
         Dict([t |-> Str("x"), status |-> Str("online")])
    /\ summary = [online |-> 1, offline |-> 2]

\* C10: the name of a record is the descriptor's name, or its ip when it has
\* no name; either way a string.
C10_NameDefault ==
    Scanning =>
        \A i \in 1..Len(statuses) :
            /\ Item(statuses[i], "name") =
                 IF "name" \in Keys(config[i]) THEN Item(config[i], "name")
                 ELSE Item(config[i], "ip")
            /\ Item(statuses[i], "name").t = "str"

C10_Witness ==
    /\ Scanning
    /\ pc = "done"
    /\ \E i, j \in 1..Len(statuses) :
         /\ "name" \notin Keys(config[i])
         /\ Item(statuses[i], "name") = Str("10.0.0.5")
         /\ Item(Item(statuses[i], "metrics"), "status") = Str("offline")
         /\ "name" \in Keys(config[j])
         /\ Item(Item(statuses[j], "metrics"), "status") = Str("online")

====
